---------------------------- MODULE Spec2Model ----------------------------
(***************************************************************************)
(* A model of t_generator, the base class of the thrift compiler's code    *)
(* generators (compiler/cpp/src/generate/t_generator.h).                   *)
(*                                                                         *)
(* A std::string is a sequence of character codes (ASCII, the "C" locale   *)
(* of the compiler), so that toupper, tolower and isupper are arithmetic   *)
(* on codes as in <cctype>.  The module holds four state machines over one *)
(* set of variables:                                                       *)
(*   SpecStr   the pure string helpers applied to bounded inputs,          *)
(*   SpecGen   one generator instance: tmp_, indent_ and their methods,    *)
(*   SpecProg  one generate_program pass over a declaration tree,          *)
(*   SpecType  get_true_type following a typedef chain, one link a step.   *)
(* A machine leaves the other machines' variables at their idle values.    *)
(***************************************************************************)
EXTENDS Integers, Sequences, FiniteSets, TLC

VARIABLES
    \* ---- SpecStr: a pure string helper applied to an input
    sIn,          \* the argument string
    sOp,          \* the helper applied last: "none", "underscore", ...
    sOut,         \* what it returned
    \* ---- SpecGen: one generator instance
    tmp_,         \* t_generator::tmp_    (int)
    indent_,      \* t_generator::indent_ (int)
    gOp,          \* the method called last
    gArg,         \* its string argument (tmp's name), <<>> otherwise
    gRet,         \* the string it returned, <<>> for a void method
    nTmp,         \* history: calls of tmp so far
    nUp,          \* history: calls of indent_up so far
    nDown,        \* history: calls of indent_down so far
    balanced,     \* history: no prefix of the calls had more downs than ups
    \* ---- SpecProg: one generate_program pass
    program_,     \* the declaration tree: one ordered collection per category
    overridesX,   \* whether the backend overrides generate_xception
    pc,           \* the dispatcher's position: a category, "done" or "aborted"
    idx,          \* the next element of the current category (1-based)
    dispatched,   \* the virtual calls generate_program has made, in order
    hooks,        \* the backend hook bodies that have run, in order
    \* ---- SpecType: get_true_type
    links,        \* the type graph: a typedef's target, or NoType
    tArg,         \* history: the argument get_true_type was called with
    type,         \* the local variable `type`
    tpc,          \* "loop" or "returned"
    nLinks        \* history: typedef links followed so far (saturating)

strVars  == <<sIn, sOp, sOut>>
genVars  == <<tmp_, indent_, gOp, gArg, gRet, nTmp, nUp, nDown, balanced>>
progVars == <<program_, overridesX, pc, idx, dispatched, hooks>>
typeVars == <<links, tArg, type, tpc, nLinks>>
vars     == <<strVars, genVars, progVars, typeVars>>

----------------------------------------------------------------------------
(* Bounds of the model.                                                    *)

MaxLen   == 3      \* longest input string of SpecStr
MaxTmp   == 11     \* tmp is called while tmp_ is below this
MaxCalls == 3      \* indent_up / indent_down are each called at most this often
NumTypes == 4      \* types in the type graph of SpecType

----------------------------------------------------------------------------
(* Character codes the source names.                                       *)

CharNL        == 10    \* '\n'
CharCR        == 13    \* '\r'
CharTab       == 9     \* '\t'
CharQuote     == 34    \* '"'
CharBackslash == 92    \* '\\'
CharUnderscore == 95   \* '_'
CharSpace     == 32    \* ' '
CharZero      == 48    \* '0'
CharMinus     == 45    \* '-'

(* <cctype> in the "C" locale. *)
isupper(c) == c \in 65..90
islower(c) == c \in 97..122
tolower(c) == IF isupper(c) THEN c + 32 ELSE c
toupper(c) == IF islower(c) THEN c - 32 ELSE c

(* The characters input strings are drawn from:                            *)
(*   'A' 'B' 'a' 'b' '_' '1' 'n'  and the five characters escape_ maps.    *)
Chars == {65, 66, 97, 98, 95, 49, 110, 10, 13, 9, 34, 92}

Strings(n) == UNION {[1..k -> Chars] : k \in 0..n}

(* std::string::insert(pos, "c") with a 1-based position.                  *)
InsertAt(s, p, c) == SubSeq(s, 1, p - 1) \o <<c>> \o SubSeq(s, p, Len(s))

----------------------------------------------------------------------------
(* underscore: camel case to underscore-separated.                         *)

RECURSIVE underscore_loop(_, _)
(* The for loop of underscore; i is the 1-based position of C++ index i-1. *)
(* The string grows while it is scanned: in.size() is read each time.      *)
underscore_loop(str, i) ==
    IF i > Len(str) THEN str
    ELSE IF isupper(str[i])
         THEN underscore_loop(
                  InsertAt([str EXCEPT ![i] = tolower(str[i])], i, CharUnderscore),
                  i + 1)
         ELSE underscore_loop(str, i + 1)

(* A slip: after an insertion the scan skips the character that follows    *)
(* the lowered one, so the second of two adjacent capitals is missed.      *)
RECURSIVE underscore_skip_loop(_, _)
underscore_skip_loop(str, i) ==
    IF i > Len(str) THEN str
    ELSE IF isupper(str[i])
         THEN underscore_skip_loop(
                  InsertAt([str EXCEPT ![i] = tolower(str[i])], i, CharUnderscore),
                  i + 3)
         ELSE underscore_skip_loop(str, i + 1)
underscore_skip(str) ==
    IF Len(str) = 0 THEN str
    ELSE underscore_skip_loop([str EXCEPT ![1] = tolower(str[1])], 2)

(* in[0] = tolower(in[0]) and then the loop from index 1.  On an empty     *)
(* string in[0] is the terminator, which tolower leaves 0: the builds      *)
(* return the empty string.                                                *)
underscore(str) ==
    IF Len(str) = 0 THEN str
    ELSE underscore_loop([str EXCEPT ![1] = tolower(str[1])], 2)

----------------------------------------------------------------------------
(* camelcase: underscore-separated to camel case.                          *)

RECURSIVE camelcase_loop(_, _, _, _)
(* The for loop of camelcase: out is the ostringstream, us the flag        *)
(* `underscore`.                                                           *)
camelcase_loop(str, i, out, us) ==
    IF i > Len(str) THEN out
    ELSE IF str[i] = CharUnderscore
         THEN camelcase_loop(str, i + 1, out, TRUE)
         ELSE IF us
              THEN camelcase_loop(str, i + 1, Append(out, toupper(str[i])), FALSE)
              ELSE camelcase_loop(str, i + 1, Append(out, str[i]), us)

(* A slip: the flag is never cleared, so everything after the first        *)
(* separator is uppercased.                                                *)
RECURSIVE camelcase_sticky_loop(_, _, _, _)
camelcase_sticky_loop(str, i, out, us) ==
    IF i > Len(str) THEN out
    ELSE IF str[i] = CharUnderscore
         THEN camelcase_sticky_loop(str, i + 1, out, TRUE)
         ELSE IF us
              THEN camelcase_sticky_loop(str, i + 1, Append(out, toupper(str[i])), TRUE)
              ELSE camelcase_sticky_loop(str, i + 1, Append(out, str[i]), us)
camelcase_sticky(str) == camelcase_sticky_loop(str, 1, <<>>, FALSE)

RECURSIVE camelcase_plain_loop(_, _, _)
(* A slip: the character after a separator is written as it is. *)
camelcase_plain_loop(str, i, out) ==
    IF i > Len(str) THEN out
    ELSE IF str[i] = CharUnderscore
         THEN camelcase_plain_loop(str, i + 1, out)
         ELSE camelcase_plain_loop(str, i + 1, Append(out, str[i]))
camelcase_plain(str) == camelcase_plain_loop(str, 1, <<>>)

camelcase(str) == camelcase_loop(str, 1, <<>>, FALSE)

----------------------------------------------------------------------------
(* escape_string.                                                          *)

(* A slip: the backslash is left out of the table. *)
escape_nobackslash ==
    (CharNL :> <<CharBackslash, 110>>) @@
    (CharCR :> <<CharBackslash, 114>>) @@
    (CharTab :> <<CharBackslash, 116>>) @@
    (CharQuote :> <<CharBackslash, CharQuote>>)

(* The map escape_ as the constructor fills it. *)
escape_ ==
    (CharNL :> <<CharBackslash, 110>>) @@
    (CharCR :> <<CharBackslash, 114>>) @@
    (CharTab :> <<CharBackslash, 116>>) @@
    (CharQuote :> <<CharBackslash, CharQuote>>) @@
    (CharBackslash :> <<CharBackslash, CharBackslash>>)

RECURSIVE escape_loop(_, _, _)
(* One pass over the input: a character escape_ maps is replaced by its    *)
(* entry, any other is copied.                                             *)
escape_loop(str, i, result) ==
    IF i > Len(str) THEN result
    ELSE IF str[i] \in DOMAIN escape_
         THEN escape_loop(str, i + 1, result \o escape_[str[i]])
         ELSE escape_loop(str, i + 1, Append(result, str[i]))

escape_string(str) == escape_loop(str, 1, <<>>)

----------------------------------------------------------------------------
(* SpecStr: the helpers applied to every string of at most MaxLen          *)
(* characters.                                                             *)

IdleStr  == sIn = <<>> /\ sOp = "idle" /\ sOut = <<>>

InitStrVars == sIn \in Strings(MaxLen) /\ sOp = "none" /\ sOut = <<>>

Underscore ==
    /\ sOp' = "underscore"
    /\ sOut' = underscore(sIn)
    /\ UNCHANGED <<sIn, genVars, progVars, typeVars>>

Camelcase ==
    /\ sOp' = "camelcase"
    /\ sOut' = camelcase(sIn)
    /\ UNCHANGED <<sIn, genVars, progVars, typeVars>>

(* A caller's camelcase(underscore(name)). *)
UnderscoreCamelcase ==
    /\ sOp' = "roundtrip"
    /\ sOut' = camelcase(underscore(sIn))
    /\ UNCHANGED <<sIn, genVars, progVars, typeVars>>

EscapeString ==
    /\ sOp' = "escape"
    /\ sOut' = escape_string(sIn)
    /\ UNCHANGED <<sIn, genVars, progVars, typeVars>>

----------------------------------------------------------------------------
(* SpecGen: one generator instance, its temporary-name counter and its     *)
(* indentation level.                                                      *)

RECURSIVE IntDigits(_)
(* The decimal digits of n >= 0, most significant first. *)
IntDigits(n) ==
    IF n < 10 THEN <<CharZero + n>>
    ELSE Append(IntDigits(n \div 10), CharZero + (n % 10))

(* operator<<(std::ostream&, int): decimal, a minus sign when negative. *)
IntToStream(n) == IF n < 0 THEN <<CharMinus>> \o IntDigits(0 - n) ELSE IntDigits(n)

(* The names tmp is called with: "x", "y", "x1". *)
Prefixes == {<<120>>, <<121>>, <<120, 49>>}

IdleGen ==
    /\ tmp_ = 0 /\ indent_ = 0
    /\ gOp = "idle" /\ gArg = <<>> /\ gRet = <<>>
    /\ nTmp = 0 /\ nUp = 0 /\ nDown = 0 /\ balanced = TRUE

(* The constructor: tmp_ = 0; indent_ = 0. *)
t_generator ==
    /\ tmp_ = 0
    /\ indent_ = 0

InitGenVars ==
    /\ t_generator
    /\ gOp = "new" /\ gArg = <<>> /\ gRet = <<>>
    /\ nTmp = 0 /\ nUp = 0 /\ nDown = 0 /\ balanced = TRUE

(* A slip: the counter is not advanced. *)
tmp_noinc(name) ==
    /\ gRet' = name \o IntToStream(tmp_)
    /\ tmp_' = tmp_

(* tmp: out << name << tmp_++. *)
tmp(name) ==
    /\ gRet' = name \o IntToStream(tmp_)
    /\ tmp_' = tmp_ + 1

Tmp ==
    /\ tmp_ < MaxTmp
    /\ \E name \in Prefixes :
          /\ tmp(name)
          /\ gArg' = name
    /\ gOp' = "tmp"
    /\ nTmp' = nTmp + 1
    /\ UNCHANGED <<indent_, nUp, nDown, balanced, strVars, progVars, typeVars>>

(* indent_up: ++indent_. *)
indent_up == indent_' = indent_ + 1

(* A slip: indent_down takes two levels off. *)
indent_down_twice == indent_' = indent_ - 2

(* indent_down: --indent_, whatever indent_ is. *)
indent_down == indent_' = indent_ - 1

IndentUp ==
    /\ nUp < MaxCalls
    /\ indent_up
    /\ gOp' = "indent_up" /\ gArg' = <<>> /\ gRet' = <<>>
    /\ nUp' = nUp + 1
    /\ UNCHANGED <<tmp_, nTmp, nDown, balanced, strVars, progVars, typeVars>>

IndentDown ==
    /\ nDown < MaxCalls
    /\ indent_down
    /\ gOp' = "indent_down" /\ gArg' = <<>> /\ gRet' = <<>>
    /\ nDown' = nDown + 1
    /\ balanced' = (balanced /\ nDown + 1 <= nUp)
    /\ UNCHANGED <<tmp_, nTmp, nUp, strVars, progVars, typeVars>>

RECURSIVE indent_loop(_, _, _)
(* for (i = 0; i < indent_; ++i) ind += "  "; *)
indent_loop(level, i, ind) ==
    IF i < level THEN indent_loop(level, i + 1, ind \o <<CharSpace, CharSpace>>)
    ELSE ind

RECURSIVE indent_single_loop(_, _, _)
(* A slip: one space a level. *)
indent_single_loop(level, i, ind) ==
    IF i < level THEN indent_single_loop(level, i + 1, ind \o <<CharSpace>>)
    ELSE ind
indent_single(level) == indent_single_loop(level, 0, <<>>)

(* indent(): the string for the level indent_. *)
indent(level) == indent_loop(level, 0, <<>>)

Indent ==
    /\ gRet' = indent(indent_)
    /\ gOp' = "indent" /\ gArg' = <<>>
    /\ UNCHANGED <<tmp_, indent_, nTmp, nUp, nDown, balanced, strVars, progVars, typeVars>>

----------------------------------------------------------------------------
(* SpecProg: one generate_program pass.                                    *)
(*                                                                         *)
(* The declaration tree holds one ordered collection per category; a       *)
(* declaration is an identifier.  generate_program and generate_consts are *)
(* declared in t_generator.h and defined in t_generator.cc, which is not   *)
(* among the sources: they are modelled from the specification (4.1, 4.2). *)
(* A step is one virtual call of the dispatcher; the call may fail, which  *)
(* aborts the pass.                                                        *)

DeclIds   == {1, 2}
(* The collections a category is drawn from: empty, one declaration, two   *)
(* declarations in either stored order.                                    *)
DeclLists == {<<>>, <<1>>, <<1, 2>>, <<2, 1>>}

Categories == {"typedefs", "enums", "consts", "structs", "xceptions", "services"}

(* A slip: enumerations are visited before typedefs. *)
VisitOrder_enumsfirst ==
    <<"init", "enums", "typedefs", "consts", "structs", "xceptions", "services", "close">>

(* The stations of generate_program in the order it passes them. *)
VisitOrder ==
    <<"init", "typedefs", "enums", "consts", "structs", "xceptions", "services", "close">>

(* The calls a station makes: one for init, close and the consts batch,    *)
(* one per declaration otherwise.                                          *)
CallsAt(tree, station) ==
    IF station \in {"init", "close", "consts"} THEN 1 ELSE Len(tree[station])

RECURSIVE SkipEmpty(_, _)
(* The first station at or after position k of VisitOrder that makes a     *)
(* call: a for loop over an empty collection makes none.                   *)
SkipEmpty(tree, k) ==
    IF k > Len(VisitOrder) THEN k
    ELSE IF CallsAt(tree, VisitOrder[k]) > 0 THEN k
    ELSE SkipEmpty(tree, k + 1)

StationIndex(station) == CHOOSE k \in 1..Len(VisitOrder) : VisitOrder[k] = station

(* The dispatcher's position after call i of `station` has returned. *)
After(tree, station, i) ==
    IF i < CallsAt(tree, station)
    THEN <<station, i + 1>>
    ELSE LET k == SkipEmpty(tree, StationIndex(station) + 1)
         IN  IF k > Len(VisitOrder) THEN <<"done", 1>> ELSE <<VisitOrder[k], 1>>

(* The hook bodies of the instrumented backend: each records its call. *)
generate_struct(d) == << <<"struct", d>> >>

(* A slip: the default exception hook forwards twice. *)
generate_xception_twice(d) == generate_struct(d) \o generate_struct(d)

(* generate_xception as t_generator defines it: generate_struct(txception). *)
generate_xception(d) == generate_struct(d)

(* generate_const as t_generator defines it: {}.  The instrumented backend *)
(* records the call.                                                       *)
generate_const(d) == << <<"const", d>> >>

RECURSIVE generate_consts_loop(_, _)
generate_consts_loop(consts, i) ==
    IF i > Len(consts) THEN <<>>
    ELSE generate_const(consts[i]) \o generate_consts_loop(consts, i + 1)

(* generate_consts: the default batch hook calls generate_const for each   *)
(* constant in order.                                                      *)
generate_consts(consts) == generate_consts_loop(consts, 1)

(* The hook bodies that run for one call of the dispatcher. *)
Run(station, arg) ==
    CASE station = "init"      -> << <<"init", arg>> >>
      [] station = "close"     -> << <<"close", arg>> >>
      [] station = "typedefs"  -> << <<"typedef", arg>> >>
      [] station = "enums"     -> << <<"enum", arg>> >>
      [] station = "consts"    -> generate_consts(arg)
      [] station = "structs"   -> generate_struct(arg)
      [] station = "xceptions" -> IF overridesX THEN << <<"xception", arg>> >>
                                  ELSE generate_xception(arg)
      [] station = "services"  -> << <<"service", arg>> >>

(* The virtual method a station calls. *)
HookOf(station) ==
    CASE station = "init"      -> "init_generator"
      [] station = "close"     -> "close_generator"
      [] station = "typedefs"  -> "generate_typedef"
      [] station = "enums"     -> "generate_enum"
      [] station = "consts"    -> "generate_consts"
      [] station = "structs"   -> "generate_struct"
      [] station = "xceptions" -> "generate_xception"
      [] station = "services"  -> "generate_service"

(* What a station passes: nothing, the whole constant collection, or the   *)
(* declaration at the position.                                            *)
ArgAt(tree, station, i) ==
    IF station \in {"init", "close"} THEN <<>>
    ELSE IF station = "consts" THEN tree.consts
    ELSE tree[station][i]

IdleProg ==
    /\ program_ = <<>> /\ overridesX = FALSE
    /\ pc = "idle" /\ idx = 0
    /\ dispatched = <<>> /\ hooks = <<>>

InitProgVars ==
    /\ program_ \in [Categories -> DeclLists]
    /\ overridesX \in BOOLEAN
    /\ pc = VisitOrder[1] /\ idx = 1
    /\ dispatched = <<>> /\ hooks = <<>>

(* One call of the dispatcher at `station`; ok says whether the hook       *)
(* returns or fails, and a failure ends the pass where it is.              *)
Call(station, ok) ==
    /\ LET arg == ArgAt(program_, station, idx)
           nxt == After(program_, station, idx)
       IN  /\ dispatched' = Append(dispatched, <<HookOf(station), arg>>)
           /\ hooks' = hooks \o Run(station, arg)
           /\ IF ok THEN pc' = nxt[1] /\ idx' = nxt[2]
                    ELSE pc' = "aborted" /\ idx' = idx
    /\ UNCHANGED <<program_, overridesX, strVars, genVars, typeVars>>

InitGenerator ==
    /\ pc = "init"
    /\ \E ok \in BOOLEAN : Call("init", ok)

GenerateTypedef ==
    /\ pc = "typedefs"
    /\ \E ok \in BOOLEAN : Call("typedefs", ok)

GenerateEnum ==
    /\ pc = "enums"
    /\ \E ok \in BOOLEAN : Call("enums", ok)

GenerateConsts ==
    /\ pc = "consts"
    /\ \E ok \in BOOLEAN : Call("consts", ok)

GenerateStruct ==
    /\ pc = "structs"
    /\ \E ok \in BOOLEAN : Call("structs", ok)

GenerateXception ==
    /\ pc = "xceptions"
    /\ \E ok \in BOOLEAN : Call("xceptions", ok)

GenerateService ==
    /\ pc = "services"
    /\ \E ok \in BOOLEAN : Call("services", ok)

CloseGenerator ==
    /\ pc = "close"
    /\ \E ok \in BOOLEAN : Call("close", ok)


----------------------------------------------------------------------------
(* SpecType: get_true_type on a type graph.  A type is a number; links[t]  *)
(* is the type a typedef t names (t_typedef::get_type), NoType when t is   *)
(* not a typedef (t_type::is_typedef is false).  The graph may hold        *)
(* cycles: nothing in get_true_type excludes them.                         *)

NoType == 0
Types  == 1..NumTypes

IdleType == links = <<>> /\ tArg = NoType /\ type = NoType /\ tpc = "idle" /\ nLinks = 0

InitTypeVars ==
    /\ links \in [Types -> Types \cup {NoType}]
    /\ type \in Types
    /\ tArg = type
    /\ tpc = "loop"
    /\ nLinks = 0

(* The history counter stops counting one past the longest acyclic chain,  *)
(* so that the endless loop on a cycle has finitely many states.           *)
CountLink(n) == IF n < NumTypes THEN n + 1 ELSE n

(* A slip: the loop body runs once at most (an if for the while). *)
TrueTypeStep_once ==
    /\ tpc = "loop"
    /\ IF links[type] # NoType
       THEN /\ type' = links[type]
            /\ nLinks' = CountLink(nLinks)
            /\ tpc' = "returned"
       ELSE /\ tpc' = "returned"
            /\ UNCHANGED <<type, nLinks>>
    /\ UNCHANGED <<links, tArg, strVars, genVars, progVars>>

(* One evaluation of the while condition of get_true_type: the body        *)
(* (type becomes the typedef's get_type()) when type->is_typedef(), the    *)
(* return otherwise.                                                       *)
TrueTypeStep ==
    /\ tpc = "loop"
    /\ IF links[type] # NoType
       THEN /\ type' = links[type]
            /\ nLinks' = CountLink(nLinks)
            /\ tpc' = "loop"
       ELSE /\ tpc' = "returned"
            /\ UNCHANGED <<type, nLinks>>
    /\ UNCHANGED <<links, tArg, strVars, genVars, progVars>>

----------------------------------------------------------------------------
(* The specifications.                                                     *)

InitStr  == InitStrVars /\ IdleGen /\ IdleProg /\ IdleType
InitGen  == IdleStr /\ InitGenVars /\ IdleProg /\ IdleType
InitProg == IdleStr /\ IdleGen /\ InitProgVars /\ IdleType
InitType == IdleStr /\ IdleGen /\ IdleProg /\ InitTypeVars

NextStr  == Underscore \/ Camelcase \/ UnderscoreCamelcase \/ EscapeString
NextGen  == Tmp \/ IndentUp \/ IndentDown \/ Indent
NextProg ==
    \/ InitGenerator \/ GenerateTypedef \/ GenerateEnum \/ GenerateConsts
    \/ GenerateStruct \/ GenerateXception \/ GenerateService \/ CloseGenerator
NextType == TrueTypeStep

SpecStr  == InitStr  /\ [][NextStr]_vars
SpecGen  == InitGen  /\ [][NextGen]_vars
SpecProg == InitProg /\ [][NextProg]_vars
SpecType == InitType /\ [][NextType]_vars

(* get_true_type runs on the one thread of the compiler, which keeps       *)
(* executing: the loop step is taken whenever it is enabled.               *)
FairSpecType == SpecType /\ WF_vars(TrueTypeStep)

----------------------------------------------------------------------------
(* The properties.  What follows states the claims in terms of their own:  *)
(* none of it uses the operators that model the code.                      *)

IsUpperLetter(c) == 65 <= c /\ c <= 90
IsLowerLetter(c) == 97 <= c /\ c <= 122
LowerOf(c) == IF IsUpperLetter(c) THEN c + 32 ELSE c
UpperOf(c) == IF IsLowerLetter(c) THEN c - 32 ELSE c
IsPrefix(a, b) == Len(a) <= Len(b) /\ SubSeq(b, 1, Len(a)) = a
Count(s, P(_)) == Cardinality({j \in 1..Len(s) : P(s[j])})

(* ---- C1 ---- *)

HookCalls(hook, decls) == [i \in 1..Len(decls) |-> <<hook, decls[i]>>]

ExpectedCalls(tree) ==
    << <<"init_generator", <<>> >> >>
    \o HookCalls("generate_typedef", tree.typedefs)
    \o HookCalls("generate_enum", tree.enums)
    \o << <<"generate_consts", tree.consts>> >>
    \o HookCalls("generate_struct", tree.structs)
    \o HookCalls("generate_xception", tree.xceptions)
    \o HookCalls("generate_service", tree.services)
    \o << <<"close_generator", <<>> >> >>

(* C1: a generate_program pass calls init, then the typedef hook per       *)
(* typedef, the enum hook per enum, the consts hook once with the whole    *)
(* collection, the struct hook per structure, the exception hook per       *)
(* exception, the service hook per service, each in stored order, then     *)
(* close.  At every moment the calls made are a prefix of that sequence    *)
(* (no hook of a later category before an earlier category is finished),   *)
(* and a pass that ends with no hook failing has made exactly that         *)
(* sequence, init and close included when every category is empty.         *)
C1_DispatchOrder ==
    /\ IsPrefix(dispatched, ExpectedCalls(program_))
    /\ pc = "done" => dispatched = ExpectedCalls(program_)

(* A finished pass over a tree with two declarations in every category,    *)
(* typedefs stored as 2, 1. *)
C1_Witness ==
    /\ pc = "done"
    /\ \A c \in Categories : Len(program_[c]) = 2
    /\ program_.typedefs = <<2, 1>>
    /\ Len(dispatched) = 13

(* ---- C9 ---- *)

StructCalls(log) == SelectSeq(log, LAMBDA e : e[1] = "struct")
DispatchedTo(log, hook) == SelectSeq(log, LAMBDA e : e[1] = hook)
Args(log) == [i \in 1..Len(log) |-> log[i][2]]

(* C9: with a backend that does not override the exception hook, a call of *)
(* the exception hook for d runs the struct hook once with d and no other  *)
(* hook; so the struct hook runs for the structures and then for the       *)
(* exceptions in stored order, all before any service hook, and in a       *)
(* finished pass once per structure and once per exception.                *)
C9_State ==
    ~overridesX /\ pc # "idle" =>
        /\ IsPrefix(Args(StructCalls(hooks)), program_.structs \o program_.xceptions)
        /\ Len(StructCalls(hooks)) =
               Len(DispatchedTo(dispatched, "generate_struct"))
               + Len(DispatchedTo(dispatched, "generate_xception"))
        /\ \A i, j \in 1..Len(hooks) :
               hooks[i][1] = "service" /\ hooks[j][1] = "struct" => j < i
        /\ pc = "done" =>
               Args(StructCalls(hooks)) = program_.structs \o program_.xceptions
C9_Step ==
    ~overridesX /\ pc = "xceptions" /\ dispatched' # dispatched =>
        hooks' = Append(hooks, <<"struct", program_.xceptions[idx]>>)
C9_ExceptionAsStruct == []C9_State /\ [][C9_Step]_vars

(* A finished pass of a backend without an exception hook of its own, over *)
(* two structures and two exceptions. *)
C9_Witness ==
    /\ pc = "done" /\ ~overridesX
    /\ program_.structs = <<2, 1>> /\ program_.xceptions = <<1, 2>>
    /\ Len(program_.services) = 2
    /\ Args(StructCalls(hooks)) = <<2, 1, 1, 2>>

(* ---- C2 ---- *)

IsDigit(c) == 48 <= c /\ c <= 57

RECURSIVE DecimalValue(_)
(* The number a string of decimal digits denotes. *)
DecimalValue(s) ==
    IF Len(s) = 0 THEN 0
    ELSE 10 * DecimalValue(SubSeq(s, 1, Len(s) - 1)) + (s[Len(s)] - 48)

(* The decimal text of a number >= 0: digits only, no leading zero, and    *)
(* the number as its value.                                                *)
IsDecimalOf(s, k) ==
    /\ Len(s) >= 1
    /\ \A j \in 1..Len(s) : IsDigit(s[j])
    /\ Len(s) > 1 => s[1] # 48
    /\ DecimalValue(s) = k

(* C2: the k-th call of tmp on an instance (k from 0) returns its argument *)
(* followed by the decimal text of k, whatever names earlier calls were    *)
(* given and whatever indent_up, indent_down or indent calls came between. *)
C2_TempName ==
    gOp = "tmp" =>
        /\ nTmp >= 1
        /\ IsPrefix(gArg, gRet)
        /\ IsDecimalOf(SubSeq(gRet, Len(gArg) + 1, Len(gRet)), nTmp - 1)

(* The eleventh call, named "x1", after indent calls: "x110". *)
C2_Witness ==
    /\ gOp = "tmp" /\ nTmp = 11
    /\ gArg = <<120, 49>>
    /\ gRet = <<120, 49, 49, 48>>
    /\ nUp = 2 /\ nDown = 1

(* ---- C3 ---- *)

(* C3 as claimed: the indent level is never negative, whatever calls of    *)
(* indent_up and indent_down were made.                                    *)
C3_NeverNegative == indent_ >= 0

(* C3 as amended: the indent level is never negative after calls of        *)
(* indent_up and indent_down of which no prefix holds more indent_down     *)
(* than indent_up calls.                                                   *)
C3_NonNegativeWhenBalanced == balanced => indent_ >= 0

(* up, up, down, down: back at level 0 by balanced calls. *)
C3_Witness ==
    /\ balanced /\ gOp = "indent_down"
    /\ nUp = 2 /\ nDown = 2
    /\ indent_ = 0

(* ---- C6 ---- *)

(* C6: after indent_up and indent_down calls of which no prefix holds more *)
(* downs than ups, indent() returns spaces only, two per level of          *)
(* (ups - downs), and leaves the indent level what the calls made it.      *)
C6_IndentString ==
    gOp = "indent" /\ balanced =>
        /\ \A j \in 1..Len(gRet) : gRet[j] = 32
        /\ Len(gRet) = 2 * (nUp - nDown)
        /\ indent_ = nUp - nDown

(* up, up, down, indent(): two spaces. *)
C6_Witness ==
    /\ gOp = "indent" /\ balanced
    /\ nUp = 2 /\ nDown = 1
    /\ gRet = <<32, 32>>

(* ---- C7 ---- *)

UppersFrom2(s, k) == Cardinality({j \in 2..k : IsUpperLetter(s[j])})

(* C7: underscore of a non-empty s lowercases s[0] and replaces every      *)
(* uppercase character at a position >= 1 by '_' and its lowercase form,   *)
(* each of two adjacent capitals by a pair of its own; the other           *)
(* characters stay, in order; the length grows by the number of those      *)
(* uppercase characters.                                                   *)
C7_Underscore ==
    sOp = "underscore" /\ Len(sIn) >= 1 =>
        /\ Len(sOut) = Len(sIn) + UppersFrom2(sIn, Len(sIn))
        /\ sOut[1] = LowerOf(sIn[1])
        /\ \A k \in 2..Len(sIn) :
              LET p == k + UppersFrom2(sIn, k)
              IN  /\ sOut[p] = LowerOf(sIn[k])
                  /\ IsUpperLetter(sIn[k]) => sOut[p - 1] = 95

(* "aBA" gives "a_b_a". *)
C7_Witness ==
    /\ sOp = "underscore"
    /\ sIn = <<97, 66, 65>>
    /\ sOut = <<97, 95, 98, 95, 97>>

(* ---- C8 ---- *)

Kept(s) == {k \in 1..Len(s) : s[k] # 95}
Rank(s, k) == Cardinality({j \in Kept(s) : j <= k})

(* C8: camelcase emits no '_'; it emits the other characters in order, a   *)
(* character that follows a '_' uppercased and any other unchanged; so a   *)
(* trailing '_' is dropped and the length is the input's less its '_'s.    *)
C8_Camelcase ==
    sOp = "camelcase" =>
        /\ \A j \in 1..Len(sOut) : sOut[j] # 95
        /\ Len(sOut) = Len(sIn) - Count(sIn, LAMBDA c : c = 95)
        /\ \A k \in Kept(sIn) :
              sOut[Rank(sIn, k)] =
                  IF k > 1 /\ sIn[k - 1] = 95 THEN UpperOf(sIn[k]) ELSE sIn[k]

(* "_ab" gives "Ab": only the character after the separator is raised. *)
C8_Witness ==
    /\ sOp = "camelcase"
    /\ sIn = <<95, 97, 98>>
    /\ sOut = <<65, 98>>

(* ---- C4 ---- *)

SameButFirstCase(a, b) ==
    /\ Len(a) = Len(b)
    /\ LowerOf(a[1]) = LowerOf(b[1])
    /\ \A k \in 2..Len(a) : a[k] = b[k]

(* C4 as claimed: for every s of length >= 1, camelcase(underscore(s)) has *)
(* the length of s and equals s at every position but for the case of the  *)
(* first character.                                                        *)
C4_RoundTrip ==
    sOp = "roundtrip" /\ Len(sIn) >= 1 => SameButFirstCase(sOut, sIn)

(* C4 as amended: the same for every s of length >= 1 that holds no '_'.   *)
C4_RoundTripNoSeparator ==
    sOp = "roundtrip" /\ Len(sIn) >= 1 /\ (\A k \in 1..Len(sIn) : sIn[k] # 95)
        => SameButFirstCase(sOut, sIn)

(* "ABa" comes back as "aBa". *)
C4_Witness ==
    /\ sOp = "roundtrip"
    /\ sIn = <<65, 66, 97>>
    /\ sOut = <<97, 66, 97>>

(* ---- C5 ---- *)

IsReserved(c) == c \in {10, 13, 9, 34, 92}
EscapeLetter(c) ==
    CASE c = 10 -> 110     \* n
      [] c = 13 -> 114     \* r
      [] c = 9  -> 116     \* t
      [] c = 34 -> 34      \* "
      [] c = 92 -> 92      \* \
ReservedBefore(s, k) == Cardinality({j \in 1..(k - 1) : IsReserved(s[j])})

(* C5: escape_string returns the concatenation, over the input's           *)
(* characters from left to right, of the two-character sequence \n, \r,    *)
(* \t, \" or \\ for a newline, carriage return, tab, double quote or       *)
(* backslash, and of the character itself otherwise; a backslash written   *)
(* by a replacement is not escaped again.                                  *)
C5_Escape ==
    sOp = "escape" =>
        /\ Len(sOut) = Len(sIn) + ReservedBefore(sIn, Len(sIn) + 1)
        /\ \A k \in 1..Len(sIn) :
              LET p == k + ReservedBefore(sIn, k)
              IN  IF IsReserved(sIn[k])
                  THEN sOut[p] = 92 /\ sOut[p + 1] = EscapeLetter(sIn[k])
                  ELSE sOut[p] = sIn[k]

(* backslash, newline, "a" gives \\ \n a: five characters. *)
C5_Witness ==
    /\ sOp = "escape"
    /\ sIn = <<92, 10, 97>>
    /\ sOut = <<92, 92, 92, 110, 97>>

(* ---- C10 ---- *)

RECURSIVE Nth(_, _, _)
(* The type n typedef links after t, NoType when the chain ends before. *)
Nth(g, t, n) ==
    IF n = 0 THEN t
    ELSE LET q == Nth(g, t, n - 1)
         IN  IF q = NoType THEN NoType ELSE g[q]

(* The lengths n at which the chain from t reaches a type that is no       *)
(* typedef: one length for a finite chain, none for a cyclic one.          *)
ChainLengths(g, t) ==
    {n \in 0..(NumTypes - 1) : Nth(g, t, n) # NoType /\ g[Nth(g, t, n)] = NoType}
IsFinite(g, t) == ChainLengths(g, t) # {}

C10_State ==
    tpc = "returned" =>
        /\ IsFinite(links, tArg)
        /\ nLinks \in ChainLengths(links, tArg)
        /\ type = Nth(links, tArg, nLinks)
        /\ links[type] = NoType

(* C10: on a finite typedef chain of n links get_true_type returns, after  *)
(* following exactly n links, the type at the end of the chain that is no  *)
(* typedef (its argument when n = 0); on a cyclic chain it never returns.  *)
C10_TrueType ==
    /\ []C10_State
    /\ [](tpc = "loop" /\ IsFinite(links, tArg) => <>(tpc = "returned"))

(* Returned from a chain of three nested typedefs. *)
C10_Witness ==
    /\ tpc = "returned" /\ nLinks = 3
    /\ links[tArg] # NoType
    /\ type # tArg

============================================================================
